---- MODULE Spec2Model ----
\* Model of the orchestration layer (src/src/assistant.py) and of the two
\* retrieval agents and the drafting agent (src/src/agents/*.py).
\*
\* Python strings are TLA+ strings, a Python list is a sequence, a raised
\* exception is an outcome record [kind |-> "raise", value |-> message] and a
\* returned value is [kind |-> "return", value |-> v].
EXTENDS Integers, Sequences, FiniteSets, TLC

\* ------------------------------------------------------------------ bounds
MaxSub == 2      \* longest sub-query list the Decomposer hands over
MaxVecs == 4     \* most vectors an in-memory index may hold
MaxK == 2        \* largest top_k of a direct search call
MaxBuilds == 2   \* most build_index calls between two constructions of the agents
MaxDocs == 2     \* most retrieved documents handed to a direct generation call
MaxAssistants == 4   \* most Assistant(...) calls followed in one process

\* ------------------------------------------------------- program constants
PromptBudget == 4096     \* prompt[:4096]
CaseTopK == 5            \* fusion_retrieval / retrieve_and_generate default
AidTopK == 3             \* find_relevant_documents default

\* -------------------------------------------------------------- the world
\* Entries the corpus directory data/casedocs may hold: regular files and a
\* sub-directory (os.path.isfile is false for it).
Files == {"A.txt", "B.txt"}
Dirs == {"sub"}
Entries == Files \cup Dirs
\* The entries the corpus directory may hold while requests are served.
ServedEntries == {"A.txt"}
\* The corpus directories the retrieval store is exercised on by itself.
Corpora == {{}, {"A.txt"}, {"A.txt", "B.txt", "sub"}}

\* The content of each regular file.
FileText(f) ==
  CASE f = "A.txt" -> "alpha"
    [] f = "B.txt" -> "bravo"

\* Texts of sub-queries / search queries.
Queries == {"q1", "q2"}

\* SentenceTransformer.encode: a deterministic map from a text to a vector.
\* The 768 dimensions are folded into one integer coordinate.
Embed(t) ==
  CASE t = "alpha" -> 0
    [] t = "bravo" -> 3
    [] t = "q1"    -> 1
    [] t = "q2"    -> 4

\* What the generation pipeline can do with a prompt: produce a text or raise.
GenTexts == {"g1"}
GenErrors == {"boom"}
Return(v) == [kind |-> "return", value |-> v]
Raise(m) == [kind |-> "raise", value |-> m]
PipeOutcomes == {Return(g) : g \in GenTexts} \cup {Raise(m) : m \in GenErrors}

\* os.listdir / os.makedirs failing (e.g. permission denied).
DirErrors == {"denied"}

CaseDiscovery == "case_discovery_agent"
LegalAid == "legal_aid_agent"
LegalDrafting == "legal_drafting_agent"
RetrievalAgents == {CaseDiscovery, LegalAid}

None == "None"

\* ---------------------------------------------------------------- helpers
Min(a, b) == IF a < b THEN a ELSE b

\* All orders in which os.listdir may report the set S.
Listings(S) ==
  {s \in [1..Cardinality(S) -> S] : \A i, j \in 1..Cardinality(S) : i # j => s[i] # s[j]}

\* s[-n:], the other end of the string.
TakeLast(s, n) == SubSeq(s, Len(s) - Min(n, Len(s)) + 1, Len(s))

\* s[:n]
Take(s, n) == SubSeq(s, 1, Min(n, Len(s)))

\* t in s, for strings.
Contains(s, t) == \E i \in 1..(Len(s) - Len(t) + 1) : SubSeq(s, i, i + Len(t) - 1) = t

\* s * n
RECURSIVE Repeat(_, _)
Repeat(s, n) ==
  IF n = 0 THEN ""
  ELSE IF n % 2 = 0 THEN LET h == Repeat(s, n \div 2) IN h \o h
  ELSE s \o Repeat(s, n - 1)

\* sep.join(xs)
RECURSIVE JoinWith(_, _)
JoinWith(sep, xs) ==
  IF Len(xs) = 0 THEN ""
  ELSE IF Len(xs) = 1 THEN xs[1]
  ELSE xs[1] \o sep \o JoinWith(sep, Tail(xs))

\* ------------------------------------------------- the vector index (faiss)
\* IndexFlatL2 reports squared Euclidean distances.
Distance(v, qe) == (v - qe) * (v - qe)

\* The distance faiss reports in a result slot it cannot fill.
FltMax == 1000 * 1000

\* The comparison turned round: the farthest position first.
FarthestPos(ix, qe, taken) ==
  LET cand == (1..Len(ix)) \ taken
  IN CHOOSE i \in cand : \A j \in cand :
       \/ Distance(ix[i], qe) > Distance(ix[j], qe)
       \/ (Distance(ix[i], qe) = Distance(ix[j], qe) /\ i <= j)

\* The stored position (1-based) nearest to qe among those not yet taken;
\* among equally distant vectors the one stored first.
BestPos(ix, qe, taken) ==
  LET cand == (1..Len(ix)) \ taken
  IN CHOOSE i \in cand : \A j \in cand :
       \/ Distance(ix[i], qe) < Distance(ix[j], qe)
       \/ (Distance(ix[i], qe) = Distance(ix[j], qe) /\ i <= j)

RECURSIVE Nearest(_, _, _, _)
Nearest(ix, qe, n, taken) ==
  IF n = 0 THEN <<>>
  ELSE LET b == BestPos(ix, qe, taken)
       IN <<[idx |-> b - 1, distance |-> Distance(ix[b], qe)]>>
            \o Nearest(ix, qe, n - 1, taken \cup {b})

\* index.search(query, k): exactly k slots, the nearest min(k, ntotal) stored
\* positions (0-based) by ascending distance, the rest filled with -1.
IndexSearch(ix, qe, k) ==
  LET n == Min(k, Len(ix))
  IN Nearest(ix, qe, n, {}) \o [i \in 1..(k - n) |-> [idx |-> -1, distance |-> FltMax]]

\* ------------------------------------------------------ the retrieval store
\* _initialise_index: the persisted index when the file exists, else a new
\* empty flat index.
InitialiseIndex(exists, vecs) == IF exists THEN vecs ELSE <<>>

\* PreprocessAttachment (Case Discovery) / open().read() (Legal Aid): the text
\* of a corpus file.
ReadDocument(f) == FileText(f)

\* A build that skips the files the metadata list already names.
RECURSIVE BuildLoopSkipsKnown(_, _, _, _)
BuildLoopSkipsKnown(ix, meta, listing, failed) ==
  IF Len(listing) = 0 THEN [index |-> ix, doc_metadata |-> meta]
  ELSE LET f == Head(listing)
       IN IF f \notin Files \/ f \in failed \/ (\E i \in 1..Len(meta) : meta[i].file_name = f)
          THEN BuildLoopSkipsKnown(ix, meta, Tail(listing), failed)
          ELSE BuildLoopSkipsKnown(Append(ix, Embed(ReadDocument(f))),
                                   Append(meta, [file_name |-> f, text |-> ReadDocument(f)]),
                                   Tail(listing), failed)

\* A build whose loop ends at the first file that raises.
RECURSIVE BuildLoopStopsAtError(_, _, _, _)
BuildLoopStopsAtError(ix, meta, listing, failed) ==
  IF Len(listing) = 0 THEN [index |-> ix, doc_metadata |-> meta]
  ELSE LET f == Head(listing)
       IN IF f \in failed THEN [index |-> ix, doc_metadata |-> meta]
          ELSE IF f \notin Files
          THEN BuildLoopStopsAtError(ix, meta, Tail(listing), failed)
          ELSE BuildLoopStopsAtError(Append(ix, Embed(ReadDocument(f))),
                                     Append(meta, [file_name |-> f, text |-> ReadDocument(f)]),
                                     Tail(listing), failed)

\* The loop of build_index over one directory listing: a regular file whose
\* read or embedding does not raise adds one vector and one metadata entry.
RECURSIVE BuildLoop(_, _, _, _)
BuildLoop(ix, meta, listing, failed) ==
  IF Len(listing) = 0 THEN [index |-> ix, doc_metadata |-> meta]
  ELSE LET f == Head(listing)
       IN IF f \notin Files \/ f \in failed
          THEN BuildLoop(ix, meta, Tail(listing), failed)
          ELSE BuildLoop(Append(ix, Embed(ReadDocument(f))),
                         Append(meta, [file_name |-> f, text |-> ReadDocument(f)]),
                         Tail(listing), failed)

\* A write that keeps the file when the file holds more than the writer does.
WrittenFileKeepsLonger(ix, old) == IF Len(old) > Len(ix) THEN old ELSE ix

\* faiss.write_index(self.index, self.index_path): the file is replaced by the
\* writer's in-memory index, whatever it held.
WrittenFile(ix, old) == ix

\* `if self.doc_metadata:` -- whether build_index writes the index file.
BuildPersists(meta) == Len(meta) > 0

\* doc_metadata[idx] for a Python list: a negative idx counts from the end.
MetaAt(meta, idx) == IF idx >= 0 THEN meta[idx + 1] ELSE meta[Len(meta) + idx + 1]

\* `if idx < len(self.doc_metadata):`
KeepsPosition(meta, idx) == idx < Len(meta)

RECURSIVE Retrieved(_, _)
Retrieved(meta, hits) ==
  IF Len(hits) = 0 THEN <<>>
  ELSE LET h == Head(hits)
       IN (IF KeepsPosition(meta, h.idx)
           THEN <<[file_name |-> MetaAt(meta, h.idx).file_name,
                   text |-> MetaAt(meta, h.idx).text,
                   score |-> 0 - h.distance]>>
           ELSE <<>>) \o Retrieved(meta, Tail(hits))

\* fusion_retrieval / find_relevant_documents.
fusion_retrieval(ix, meta, query, top_k) ==
  IF Len(meta) = 0 \/ Len(ix) = 0 THEN <<>>
  ELSE Retrieved(meta, IndexSearch(ix, Embed(query), top_k))

DocTexts(docs) == [i \in 1..Len(docs) |-> docs[i].text]

\* The prompt generate_summary builds (Case Discovery).
SummaryPrompt(documents, query) ==
  IF Len(documents) = 0
  THEN "You are a legal research assistant. No relevant case documents were retrieved. Based only on your general legal knowledge, answer the following query:\n\n" \o query
  ELSE JoinWith("\n\n", DocTexts(documents)) \o "\n\n" \o query

\* The prompt provide_aid builds (Legal Aid).
AidPrompt(relevant_docs, query) ==
  IF Len(relevant_docs) = 0
  THEN "You are a legal assistant. Answer the following question as best as you can based only on your general legal knowledge:\n\nQuestion: " \o query
  ELSE "Answer the following question using the context from the retrieved legal documents.\n\nQuestion: " \o query \o "\n\nContext:\n" \o JoinWith("\n\n", DocTexts(relevant_docs))

\* The prompt draft_document builds (Legal Drafting, document mode).
DraftPrompt(instructions, context) ==
  "Context: " \o context \o "\n\nInstructions: " \o instructions \o "\n\nDraft:"

\* generate_summary has no try/except: what the pipeline raises leaves the agent.
SummaryOutcome(pipeOut) == pipeOut

\* provide_aid catches what the pipeline raises. (Its `if not self.qa_pipeline`
\* branch is dead: Assistant.__init__ always hands over a pipeline.)
AidOutcome(pipeOut) ==
  IF pipeOut.kind = "raise" THEN Return("Error generating answer: " \o pipeOut.value)
  ELSE pipeOut

\* draft_document catches what the pipeline raises.
DraftOutcome(pipeOut) ==
  IF pipeOut.kind = "raise" THEN Return("Error generating draft: " \o pipeOut.value)
  ELSE pipeOut

TopKOf(a) == IF a = CaseDiscovery THEN CaseTopK ELSE AidTopK

PromptOf(a, docs, query) ==
  IF a = CaseDiscovery THEN SummaryPrompt(docs, query) ELSE AidPrompt(docs, query)

\* self.pipe(prompt[:4096], ...): what reaches the Generation Service.
SubmittedPrompt(a, docs, query) == Take(PromptOf(a, docs, query), PromptBudget)

OutcomeOf(a, pipeOut) ==
  IF a = CaseDiscovery THEN SummaryOutcome(pipeOut)
  ELSE IF a = LegalAid THEN AidOutcome(pipeOut)
  ELSE DraftOutcome(pipeOut)

\* ----------------------------------------------------------- the orchestrator
\* The table with "document summarization" given to the Legal Aid agent.
task_alloc_summaries_to_aid ==
  ("case discovery" :> CaseDiscovery) @@ ("document summarization" :> LegalAid)
    @@ ("legal drafting" :> LegalDrafting) @@ ("query resolution" :> LegalAid)

\* self.task_alloc
task_alloc ==
  ("case discovery" :> CaseDiscovery) @@ ("document summarization" :> CaseDiscovery)
    @@ ("legal drafting" :> LegalDrafting) @@ ("query resolution" :> LegalAid)

Tasks == DOMAIN task_alloc \cup {"unknown-task"}

Subqueries == [task : Tasks, text : Queries]

SubqueryLists == UNION {[1..n -> Subqueries] : n \in 0..MaxSub}

ErrorMessages == {"X", ""}

\* What the Decomposer may hand back: a dict with an "error" key, with a
\* "sub_queries" key, with both, or with neither.
Intents ==
  [error : ErrorMessages]
    \cup [sub_queries : SubqueryLists]
    \cup [error : ErrorMessages, sub_queries : SubqueryLists]
    \cup [note : {"n"}]

NoQueriesMessage == "No valid queries could be extracted from the input."

\* f"Error processing input: {intent['error']}"
InputError(intent) == "Error processing input: " \o intent.error

\* The test without its `not intent['sub_queries']` half.
NoSubqueriesKeyOnly(intent) == "sub_queries" \notin DOMAIN intent

\* `'sub_queries' not in intent or not intent['sub_queries']`
NoSubqueries(intent) ==
  "sub_queries" \notin DOMAIN intent \/ Len(intent.sub_queries) = 0

\* The loop without its `if task not in self.task_alloc` branch: the lookup
\* raises KeyError(task), which the except clause turns into the slot.
UnknownTaskKeyError(subquery) ==
  "Error processing subquery '" \o subquery.text \o "': '" \o subquery.task \o "'"

\* f"Unknown task: {task}" with task = subquery.get('task')
UnknownTask(subquery) == "Unknown task: " \o subquery.task

\* The loop body without its try/except.
CatchNothing(subquery, oc) == oc

\* The except clause reading a key the sub-query does not have.
CatchWrongKey(subquery, oc) ==
  IF oc.kind = "raise"
  THEN Return("Error processing subquery '" \o "" \o "': " \o oc.value)
  ELSE oc

\* The try/except around one sub-query: an exception becomes the slot's text.
CatchSubquery(subquery, oc) ==
  IF oc.kind = "raise"
  THEN Return("Error processing subquery '" \o subquery.text \o "': " \o oc.value)
  ELSE oc

\* The early returns with the error looked at only when there is nothing to route.
EarlyReturnErrorLast(intent) ==
  IF ~NoSubqueries(intent) THEN <<>>
  ELSE IF "error" \in DOMAIN intent THEN <<InputError(intent)>>
  ELSE <<NoQueriesMessage>>

\* The two early returns of __call__: the text returned before the loop, if any.
EarlyReturn(intent) ==
  IF "error" \in DOMAIN intent THEN <<InputError(intent)>>
  ELSE IF NoSubqueries(intent) THEN <<NoQueriesMessage>>
  ELSE <<>>

\* " ".join(results)
JoinWithBlank(rs) == JoinWith(" ", rs)

\* "".join(results)
JoinResults(rs) == JoinWith("", rs)

\* results.append(...)
AppendResult(rs, r) == Append(rs, r)

NoOutput == [kind |-> "none", value |-> ""]
NoBuild == [files |-> {}, failed |-> {}, added |-> 0, wrote |-> FALSE]
NoBuilds == [n |-> 0, clean |-> TRUE, last |-> NoBuild]
NoSearch == [agent |-> None, query |-> "", top_k |-> 0, docs |-> <<>>, before |-> <<>>]
\* An agent call that ended before it searched or generated anything.
NoWork == [search |-> <<>>, prompt |-> <<>>, pipe |-> <<>>]
NoGeneration ==
  [agent |-> None, text |-> "", context |-> "", clause_type |-> None, docs |-> <<>>,
   full |-> "", prompt |-> <<>>, pipe |-> <<>>, outcome |-> NoOutput]

\* The handle pipeline(...) returns in _load_generation_pipeline, and a handle
\* the caller of Assistant(pipe) passes in.
LoadedPipe(n) == [by |-> "_load_generation_pipeline", serial |-> n]
InjectedPipe == [by |-> "caller", serial |-> 0]
\* Assistant() with no argument succeeding: the Assistant and its three agents
\* hold the handle the loader returned.
ConstructionWith(arg, p) ==
  [arg |-> arg, result |-> "ok", pipe |-> <<p>>,
   case_discovery_agent |-> <<p>>, legal_aid_agent |-> <<p>>,
   legal_drafting_agent |-> <<p>>]
\* Assistant(...) raising: while the pipeline loads (no handle yet), or while
\* the retrieval agents load their embedding model (the handle is in self.pipe).
FailedConstruction(arg, result, pipe) ==
  [arg |-> arg, result |-> result, pipe |-> pipe,
   case_discovery_agent |-> <<>>, legal_aid_agent |-> <<>>,
   legal_drafting_agent |-> <<>>]
FirstConstruction == ConstructionWith(<<>>, LoadedPipe(1))

\* A loader without @lru_cache.
NeverCached(cache) == FALSE

\* @lru_cache(maxsize=1): a result is cached; a raised exception is not.
CacheHit(cache) == Len(cache) > 0

\* for subquery in sub_queries: the loop moves to the next list position.
NextPos(p) == p + 1

VARIABLES
  fileExists,    \* whether index_path (case_index.faiss) exists
  fileVecs,      \* the vectors of the persisted index
  dirExists,     \* whether the corpus directory data/casedocs exists
  corpus,        \* the entries of the corpus directory
  index,         \* per retrieval agent: self.index, the sequence of stored vectors
  doc_metadata,  \* per retrieval agent: self.doc_metadata
  index_exist,   \* per retrieval agent: self.index_exist
  pc,            \* Assistant.__call__: "idle", "loop" or "done"
  intent,        \* the Decomposer's result for the request in progress
  pos,           \* position of the for loop in sub_queries
  results,       \* the list results
  output,        \* what __call__ returned (or raised)
  calls,         \* history: the agent invocations of the request in progress
  builds,        \* history: per retrieval agent, its build_index calls since construction:
                 \* how many (n), whether none had a failing file (clean), and the last
  loaded,        \* history: per retrieval agent, the vectors read from the file at construction
  lastSearch,    \* the last direct search call and what it returned
  generation,    \* the last direct agent call: its arguments, prompt and outcome
  pipeCache,     \* the lru_cache of _load_generation_pipeline: no or one handle
  pipeLoads,     \* history: how many pipeline handles the loader has constructed
  constructions  \* history: the Assistant(...) calls of this process, in order

disk == <<fileExists, fileVecs, dirExists, corpus>>
store == <<index, doc_metadata, index_exist, builds, loaded>>
orch == <<pc, intent, pos, results, output, calls>>
process == <<pipeCache, pipeLoads, constructions>>
vars == <<fileExists, fileVecs, dirExists, corpus, index, doc_metadata, index_exist,
          pc, intent, pos, results, output, calls, builds, loaded, lastSearch,
          generation, pipeCache, pipeLoads, constructions>>

\* Assistant.__init__ building its two retrieval agents: each loads the
\* persisted index when the file exists and starts with an empty metadata list.
Construct ==
  /\ index' = [a \in RetrievalAgents |-> InitialiseIndex(fileExists, fileVecs)]
  /\ doc_metadata' = [a \in RetrievalAgents |-> <<>>]
  /\ index_exist' = [a \in RetrievalAgents |-> FALSE]
  /\ builds' = [a \in RetrievalAgents |-> NoBuilds]
  /\ loaded' = [a \in RetrievalAgents |-> Len(InitialiseIndex(fileExists, fileVecs))]

\* The disk, the agents and the orchestrator before the first request.
FreshWith(C) ==
  /\ fileExists = FALSE
  /\ fileVecs = <<>>
  /\ dirExists \in BOOLEAN
  /\ corpus \in C
  /\ (~dirExists => corpus = {})
  /\ index = [a \in RetrievalAgents |-> <<>>]
  /\ doc_metadata = [a \in RetrievalAgents |-> <<>>]
  /\ index_exist = [a \in RetrievalAgents |-> FALSE]
  /\ builds = [a \in RetrievalAgents |-> NoBuilds]
  /\ loaded = [a \in RetrievalAgents |-> 0]
  /\ pc = "idle"
  /\ intent = [note |-> "n"]
  /\ pos = 0
  /\ results = <<>>
  /\ output = NoOutput
  /\ calls = <<>>
  /\ lastSearch = NoSearch
  /\ generation = NoGeneration

\* The state once app.py's get_assistant has run Assistant() in a new process:
\* the loader has constructed the one pipeline handle.
InitWith(C) ==
  /\ FreshWith(C)
  /\ pipeCache = <<LoadedPipe(1)>>
  /\ pipeLoads = 1
  /\ constructions = <<FirstConstruction>>

Init == InitWith(SUBSET ServedEntries)

\* build_index of agent a over one listing of the corpus directory, the files
\* in `failed` raising while they are read or embedded. Both agents use the
\* default index_path, so they write the same file.
BuildIndex(a, listing, failed) ==
  LET b == BuildLoop(index[a], doc_metadata[a], listing, failed)
      wrote == BuildPersists(b.doc_metadata)
  IN /\ Len(b.index) <= MaxVecs
     /\ builds[CaseDiscovery].n + builds[LegalAid].n < MaxBuilds
     /\ dirExists' = TRUE
     /\ index' = [index EXCEPT ![a] = b.index]
     /\ doc_metadata' = [doc_metadata EXCEPT ![a] = b.doc_metadata]
     /\ index_exist' = [index_exist EXCEPT ![a] = index_exist[a] \/ wrote]
     /\ fileExists' = (fileExists \/ wrote)
     /\ fileVecs' = IF wrote THEN WrittenFile(b.index, fileVecs) ELSE fileVecs
     /\ builds' = [builds EXCEPT ![a] =
                     [n |-> @.n + 1,
                      clean |-> @.clean /\ failed = {},
                      last |-> [files |-> corpus \cap Files, failed |-> failed,
                                added |-> Len(b.index) - Len(index[a]), wrote |-> wrote]]]
     /\ UNCHANGED <<corpus, loaded>>

\* The docs and the prompt agent a gets from the store build_index left.
DocsAfterBuild(a, query, listing, failed) ==
  LET b == BuildLoop(index[a], doc_metadata[a], listing, failed)
  IN fusion_retrieval(b.index, b.doc_metadata, query, TopKOf(a))

\* A loop that moves on to the next sub-query without waiting for the call
\* it has made: the slot of the call is not there when the next call is made.
DeliverWithoutWaiting(a, subquery, work, oc) ==
  /\ calls' = Append(calls, [agent |-> a, text |-> subquery.text, pos |-> pos,
                             slots |-> Len(results), search |-> work.search,
                             prompt |-> work.prompt, pipe |-> work.pipe,
                             outcome |-> oc])
  /\ pos' = NextPos(pos)
  /\ UNCHANGED <<results, pc, output, intent, lastSearch, generation, process>>

\* The rest of one loop iteration once the agent call has ended with oc:
\* the slot appended (or, were the exception not caught, the request ended).
Deliver(a, subquery, work, oc) ==
  LET r == CatchSubquery(subquery, oc)
  IN /\ calls' = Append(calls, [agent |-> a, text |-> subquery.text, pos |-> pos,
                                slots |-> Len(results), search |-> work.search,
                                prompt |-> work.prompt, pipe |-> work.pipe,
                                outcome |-> oc])
     /\ IF r.kind = "raise"
        THEN /\ output' = r
             /\ pc' = "done"
             /\ UNCHANGED <<pos, results>>
        ELSE /\ results' = AppendResult(results, r.value)
             /\ pos' = NextPos(pos)
             /\ UNCHANGED <<pc, output>>
     /\ UNCHANGED <<intent, lastSearch, generation, process>>

\* The loop is at a sub-query whose task the routing table maps to agent a.
RoutedTo(a) ==
  /\ pc = "loop"
  /\ pos <= Len(intent.sub_queries)
  /\ intent.sub_queries[pos].task \in DOMAIN task_alloc
  /\ task_alloc[intent.sub_queries[pos].task] = a

\* CaseDiscoveryAgent.__call__ / LegalAidAgent.__call__ as the statement
\* self.task_alloc[task](subquery['text']) of the loop: build, search, generate.
CallRetrievalAgent(a, pipeOut) ==
  LET subquery == intent.sub_queries[pos]
  IN /\ a \in RetrievalAgents
     /\ RoutedTo(a)
     /\ \E listing \in Listings(corpus), failed \in SUBSET (corpus \cap Files) :
          /\ BuildIndex(a, listing, failed)
          /\ LET docs == DocsAfterBuild(a, subquery.text, listing, failed)
             IN Deliver(a, subquery,
                        [search |-> <<docs>>,
                         prompt |-> <<SubmittedPrompt(a, docs, subquery.text)>>,
                         pipe |-> <<pipeOut>>],
                        OutcomeOf(a, pipeOut))

\* The same statement when os.makedirs / os.listdir raises in build_index:
\* nothing was indexed, searched or generated.
CallRetrievalAgentDirError(a, dirErr) ==
  /\ a \in RetrievalAgents
  /\ RoutedTo(a)
  /\ Deliver(a, intent.sub_queries[pos], NoWork, Raise(dirErr))
  /\ UNCHANGED <<disk, store>>

\* LegalDraftingAgent.__call__(instructions): document mode, empty context.
CallDraftingAgent(pipeOut) ==
  LET subquery == intent.sub_queries[pos]
  IN /\ RoutedTo(LegalDrafting)
     /\ Deliver(LegalDrafting, subquery,
                [search |-> <<>>, prompt |-> <<DraftPrompt(subquery.text, "")>>,
                 pipe |-> <<pipeOut>>],
                OutcomeOf(LegalDrafting, pipeOut))
     /\ UNCHANGED <<disk, store>>

\* The loop iteration for a task the routing table does not hold.
SkipUnknownTask ==
  LET subquery == intent.sub_queries[pos]
  IN /\ pc = "loop"
     /\ pos <= Len(intent.sub_queries)
     /\ subquery.task \notin DOMAIN task_alloc
     /\ results' = AppendResult(results, UnknownTask(subquery))
     /\ pos' = NextPos(pos)
     /\ UNCHANGED <<pc, intent, output, calls, lastSearch, disk, store>>
     /\ UNCHANGED <<generation, process>>

\* Assistant.__call__ up to the loop: decompose, then the two early returns.
\* One request is followed per constructed Assistant.
Handle(in) ==
  /\ pc = "idle"
  /\ intent' = in
  /\ calls' = <<>>
  /\ results' = <<>>
  /\ IF EarlyReturn(in) # <<>>
     THEN /\ output' = Return(EarlyReturn(in)[1])
          /\ pc' = "done"
          /\ pos' = 0
     ELSE /\ output' = NoOutput
          /\ pc' = "loop"
          /\ pos' = 1
  /\ UNCHANGED <<lastSearch, disk, store, generation, process>>

\* The end of the loop: return "".join(results).
ReturnJoined ==
  /\ pc = "loop"
  /\ pos > Len(intent.sub_queries)
  /\ output' = Return(JoinResults(results))
  /\ pc' = "done"
  /\ UNCHANGED <<intent, pos, results, calls, lastSearch, disk, store>>
  /\ UNCHANGED <<generation, process>>

\* A new process: the Assistant and its agents are constructed again.
Restart ==
  /\ pc \in {"idle", "done"}
  /\ Construct
  /\ pc' = "idle"
  /\ intent' = [note |-> "n"]
  /\ pos' = 0
  /\ results' = <<>>
  /\ output' = NoOutput
  /\ calls' = <<>>
  /\ lastSearch' = NoSearch
  /\ generation' = NoGeneration
  /\ pipeCache' = <<LoadedPipe(1)>>
  /\ pipeLoads' = 1
  /\ constructions' = <<FirstConstruction>>
  /\ UNCHANGED disk

\* One iteration of the loop of __call__, or its end.
LoopStep ==
  \/ \E a \in RetrievalAgents, pipeOut \in PipeOutcomes : CallRetrievalAgent(a, pipeOut)
  \/ \E a \in RetrievalAgents, e \in DirErrors : CallRetrievalAgentDirError(a, e)
  \/ \E pipeOut \in PipeOutcomes : CallDraftingAgent(pipeOut)
  \/ SkipUnknownTask
  \/ ReturnJoined

Next ==
  \/ \E in \in Intents : Handle(in)
  \/ LoopStep

Spec == Init /\ [][Next]_vars

\* ------------------------------------------ several requests of one process
\* One sub-query per request.
SessionIntents == {[sub_queries |-> <<s>>] : s \in Subqueries}

\* __call__ has returned and the Assistant, kept by get_assistant, waits for
\* the next request: the agents keep their index and their metadata list.
NextRequest ==
  /\ pc = "done"
  /\ pc' = "idle"
  /\ intent' = [note |-> "n"]
  /\ pos' = 0
  /\ results' = <<>>
  /\ output' = NoOutput
  /\ calls' = <<>>
  /\ UNCHANGED <<lastSearch, disk, store, generation, process>>

\* Between two requests the documents are taken out of the corpus directory,
\* or the directory is removed: build_index lists the directory anew each time.
CorpusEmptied ==
  /\ pc = "idle"
  /\ corpus # {}
  /\ corpus' = {}
  /\ dirExists' \in BOOLEAN
  /\ UNCHANGED <<fileExists, fileVecs, store, orch, lastSearch, generation, process>>

SessionNext ==
  \/ \E in \in SessionIntents : Handle(in)
  \/ LoopStep
  \/ NextRequest
  \/ CorpusEmptied
  \/ Restart

SessionSpec == Init /\ [][SessionNext]_vars

\* ------------------------------------------- the retrieval store on its own
\* build_index called on agent a.
Build(a) ==
  /\ pc = "idle"
  /\ \E listing \in Listings(corpus), failed \in SUBSET (corpus \cap Files) :
       BuildIndex(a, listing, failed)
  /\ lastSearch' = NoSearch
  /\ UNCHANGED <<orch, generation, process>>

\* What the call answered the last time, when the call before it was the same
\* call and no build came between the two.
SameCallBefore(a, query, top_k) ==
  IF lastSearch.agent = a /\ lastSearch.query = query /\ lastSearch.top_k = top_k
  THEN <<lastSearch.docs>>
  ELSE <<>>

\* A search that adds the query's own embedding to the index it searched.
SearchKeepingQuery(a, query, top_k) ==
  /\ pc = "idle"
  /\ Len(index[a]) < MaxVecs
  /\ lastSearch' = [agent |-> a, query |-> query, top_k |-> top_k,
                    docs |-> fusion_retrieval(index[a], doc_metadata[a], query, top_k),
                    before |-> SameCallBefore(a, query, top_k)]
  /\ index' = [index EXCEPT ![a] = Append(@, Embed(query))]
  /\ UNCHANGED <<disk, doc_metadata, index_exist, builds, loaded, orch, generation, process>>

\* fusion_retrieval(query, top_k) / find_relevant_documents(query, top_k)
\* called on agent a.
Search(a, query, top_k) ==
  /\ pc = "idle"
  /\ lastSearch' = [agent |-> a, query |-> query, top_k |-> top_k,
                    docs |-> fusion_retrieval(index[a], doc_metadata[a], query, top_k),
                    before |-> SameCallBefore(a, query, top_k)]
  /\ UNCHANGED <<disk, store, orch, generation, process>>

StoreInit == InitWith(Corpora)

StoreNext ==
  \/ \E a \in RetrievalAgents : Build(a)
  \/ \E a \in RetrievalAgents, q \in Queries, k \in 1..MaxK : Search(a, q, k)
  \/ Restart

StoreSpec == StoreInit /\ [][StoreNext]_vars

\* ------------------------------------------------ the agents called directly
\* The prompt generate_clauses builds (Legal Drafting, clause mode).
ClausePrompt(instructions, clause_type) ==
  "Draft a " \o clause_type \o " clause based on the following instructions:\n"
    \o instructions \o "\n\nClause:"

\* generate_clauses with its try/except taken away.
ClauseOutcomeUncaught(pipeOut) == pipeOut

\* generate_clauses catches what the pipeline raises.
ClauseOutcome(pipeOut) ==
  IF pipeOut.kind = "raise" THEN Return("Error generating clause: " \o pipeOut.value)
  ELSE pipeOut

\* A __call__ that never takes the clause branch.
NeverClauseMode(clause_type) == FALSE

\* `if clause_type:` -- None and the empty string select document mode.
ClauseMode(clause_type) == clause_type # None /\ clause_type # ""

\* Arguments of LegalDraftingAgent.__call__.
Instructions == {"i1", "lease for a flat"}
Contexts == {"", "c1"}
ClauseTypes == {None, "", "indemnity"}

\* Documents a search may hand to the generation step: a short one, one that
\* with a two-character query fills the prompt budget of Case Discovery
\* exactly, and one longer than the budget.
RetrievedDocs ==
  {[file_name |-> "A.txt", text |-> "alpha", score |-> 0 - 1],
   [file_name |-> "L.txt", text |-> Repeat("x", PromptBudget - Len("\n\nq1")), score |-> 0 - 4],
   [file_name |-> "M.txt", text |-> Repeat("y", PromptBudget + 1), score |-> 0 - 9]}
RetrievedLists == UNION {[1..n -> RetrievedDocs] : n \in 0..MaxDocs}
\* Queries of a direct call: the short ones and one as long as the budget.
LongQueries == Queries \cup {Repeat("q", PromptBudget)}

\* LegalDraftingAgent.__call__(instructions, context, clause_type).
Draft(instructions, context, clause_type, pipeOut) ==
  LET clause == ClauseMode(clause_type)
      prompt == IF clause THEN ClausePrompt(instructions, clause_type)
                ELSE DraftPrompt(instructions, context)
  IN /\ pc = "idle"
     /\ generation' = [agent |-> LegalDrafting, text |-> instructions,
                       context |-> context, clause_type |-> clause_type, docs |-> <<>>,
                       full |-> prompt, prompt |-> <<prompt>>, pipe |-> <<pipeOut>>,
                       outcome |-> IF clause THEN ClauseOutcome(pipeOut)
                                   ELSE DraftOutcome(pipeOut)]
     /\ UNCHANGED <<disk, store, orch, lastSearch, process>>

\* generate_summary(documents, query) of Case Discovery; of Legal Aid, the part
\* of provide_aid that follows find_relevant_documents.
GenerateFrom(a, docs, query, pipeOut) ==
  /\ pc = "idle"
  /\ generation' = [agent |-> a, text |-> query, context |-> "", clause_type |-> None,
                    docs |-> docs, full |-> PromptOf(a, docs, query),
                    prompt |-> <<SubmittedPrompt(a, docs, query)>>,
                    pipe |-> <<pipeOut>>, outcome |-> OutcomeOf(a, pipeOut)]
  /\ UNCHANGED <<disk, store, orch, lastSearch, process>>

AgentInit == InitWith({{}})

AgentNext ==
  \/ \E i \in Instructions, c \in Contexts, t \in ClauseTypes, pipeOut \in PipeOutcomes :
       Draft(i, c, t, pipeOut)
  \/ \E a \in RetrievalAgents, docs \in RetrievedLists, q \in LongQueries,
        pipeOut \in PipeOutcomes : GenerateFrom(a, docs, q, pipeOut)

AgentSpec == AgentInit /\ [][AgentNext]_vars

\* ------------------------------------------- Assistants built in one process
\* Assistant(pipe): arg is <<>> for pipe=None, else the handle handed in. The
\* loader raises when loadOk is false, an agent constructor when agentsOk is.
NewAssistant(arg, loadOk, agentsOk) ==
  LET needed == arg = <<>>
      loads == needed /\ ~CacheHit(pipeCache)
      p == IF ~needed THEN arg[1]
           ELSE IF loads THEN LoadedPipe(pipeLoads + 1)
           ELSE pipeCache[1]
  IN /\ pc = "idle"
     /\ Len(constructions) < MaxAssistants
     /\ IF loads /\ ~loadOk
        THEN /\ constructions' = Append(constructions,
                                        FailedConstruction(arg, "load failed", <<>>))
             /\ UNCHANGED <<pipeCache, pipeLoads, store>>
        ELSE /\ pipeCache' = IF loads THEN <<p>> ELSE pipeCache
             /\ pipeLoads' = IF loads THEN pipeLoads + 1 ELSE pipeLoads
             /\ IF agentsOk
                THEN /\ constructions' = Append(constructions, ConstructionWith(arg, p))
                     /\ Construct
                ELSE /\ constructions' = Append(constructions,
                                                FailedConstruction(arg, "agents failed", <<p>>))
                     /\ UNCHANGED store
     /\ UNCHANGED <<disk, orch, lastSearch, generation>>

\* A process in which no Assistant has been constructed yet.
PipeInit ==
  /\ FreshWith({{}})
  /\ pipeCache = <<>>
  /\ pipeLoads = 0
  /\ constructions = <<>>

PipeNext ==
  \E arg \in {<<>>, <<InjectedPipe>>}, loadOk \in BOOLEAN, agentsOk \in BOOLEAN :
    NewAssistant(arg, loadOk, agentsOk)

PipeSpec == PipeInit /\ [][PipeNext]_vars

\* ------------------------------------------------------------------ claims
\* The request went through the loop: no error and a non-empty sub-query list.
Routed == "error" \notin DOMAIN intent /\ "sub_queries" \in DOMAIN intent
            /\ Len(intent.sub_queries) > 0

\* C1: Assistant.__call__ returns a string and never raises, whatever the
\* Decomposer's result and whatever each agent call does (return or raise):
\* no exception is ever the outcome of a request, a finished request has a
\* string as its return value, and an unfinished one stands at a sub-query of
\* its list (or just past the last) with one slot per sub-query already done.
C1_ReturnsString ==
  /\ output.kind # "raise"
  /\ (pc = "done" => output.kind = "return" /\ output.value \in STRING)
  /\ (pc = "loop" => /\ output = NoOutput
                     /\ pos \in 1..(Len(intent.sub_queries) + 1)
                     /\ Len(results) = pos - 1)

\* A finished request one of whose agent calls raised.
C1_Witness ==
  /\ pc = "done"
  /\ output.kind = "return"
  /\ \E i \in 1..Len(calls) : calls[i].outcome.kind = "raise"

\* C2: a Decomposer result with an error field X makes __call__ return exactly
\* "Error processing input: " followed by X, without entering the loop,
\* whatever else the result carries.
C2_ErrorVerbatim ==
  (pc # "idle" /\ "error" \in DOMAIN intent) =>
    /\ pc = "done"
    /\ output = Return("Error processing input: " \o intent.error)
    /\ calls = <<>>

\* An error result that also carries a non-empty sub-query list was handled.
C2_Witness ==
  /\ pc = "done"
  /\ "error" \in DOMAIN intent
  /\ "sub_queries" \in DOMAIN intent
  /\ Len(intent.sub_queries) > 0
  /\ intent.error = "X"

\* C3: with no error and the sub-query list absent or empty, __call__ returns
\* exactly the constant message.
C3_NoQueriesConstant ==
  (pc # "idle" /\ "error" \notin DOMAIN intent
     /\ ("sub_queries" \notin DOMAIN intent \/ intent.sub_queries = <<>>)) =>
    /\ pc = "done"
    /\ output = Return("No valid queries could be extracted from the input.")

\* A request whose sub-query list is present and empty was handled.
C3_Witness ==
  /\ pc = "done"
  /\ "error" \notin DOMAIN intent
  /\ "sub_queries" \in DOMAIN intent
  /\ intent.sub_queries = <<>>

\* The routing table as the specification states it.
RoutingKeys == {"case discovery", "document summarization", "legal drafting",
                "query resolution"}

RoutedAgent(task) ==
  CASE task = "case discovery" -> CaseDiscovery
    [] task = "document summarization" -> CaseDiscovery
    [] task = "legal drafting" -> LegalDrafting
    [] task = "query resolution" -> LegalAid

\* What the claims say the slot of sub-query i is, read off the Decomposer's
\* result and the record of the agent invocations.
CallsAt(i) == {j \in 1..Len(calls) : calls[j].pos = i}

SlotOf(i) ==
  LET sq == intent.sub_queries[i]
      c == calls[CHOOSE j \in CallsAt(i) : TRUE]
  IN IF sq.task \notin RoutingKeys
     THEN "Unknown task: " \o sq.task
     ELSE IF c.outcome.kind = "raise"
     THEN "Error processing subquery '" \o sq.text \o "': " \o c.outcome.value
     ELSE c.outcome.value

\* C4: a sub-query whose task is not in the routing table, at any position,
\* has exactly "Unknown task: " + task as its slot; every slot stands at the
\* position of its sub-query; and the loop iteration that handles the unknown
\* task invokes no agent and leaves the agents, the index file and the corpus
\* as they were, so the other sub-queries' slots are what they would be
\* without it.
C4_UnknownTaskSlot ==
  /\ [](Routed =>
          /\ Len(results) = (IF pc = "done" THEN Len(intent.sub_queries) ELSE pos - 1)
          /\ \A i \in 1..Len(results) :
               /\ (intent.sub_queries[i].task \notin RoutingKeys =>
                     /\ results[i] = "Unknown task: " \o intent.sub_queries[i].task
                     /\ CallsAt(i) = {})
               /\ results[i] = SlotOf(i))
  /\ [][(pc = "loop" /\ pos <= Len(intent.sub_queries)
           /\ intent.sub_queries[pos].task \notin RoutingKeys) =>
          /\ UNCHANGED <<disk, store, calls>>
          /\ SubSeq(results', 1, Len(results)) = results
          /\ pos' = pos + 1 /\ pc' = "loop"]_vars

\* A finished request with an unknown task first and a routed sub-query after it.
C4_Witness ==
  /\ pc = "done"
  /\ Routed
  /\ Len(intent.sub_queries) >= 2
  /\ intent.sub_queries[1].task = "unknown-task"
  /\ intent.sub_queries[2].task = "legal drafting"
  /\ results[1] = "Unknown task: unknown-task"
  /\ results[2] = "g1"

\* C5: when the agent called for sub-query i raises with message M, slot i is
\* exactly "Error processing subquery '" + text_i + "': " + M, the loop goes on
\* to the next sub-query (a finished request has one slot per sub-query), and
\* the request does not end in an exception.
C5_AgentErrorIsolated ==
  /\ output.kind # "raise"
  /\ (Routed /\ pc = "done" => Len(results) = Len(intent.sub_queries))
  /\ \A j \in 1..Len(calls) :
       calls[j].outcome.kind = "raise" =>
         /\ Len(results) >= calls[j].pos
         /\ results[calls[j].pos] =
              "Error processing subquery '" \o intent.sub_queries[calls[j].pos].text
                \o "': " \o calls[j].outcome.value
         /\ (pc = "loop" => pos > calls[j].pos)

\* The first sub-query's agent raised and the second was still served.
C5_Witness ==
  /\ pc = "done"
  /\ Len(calls) = 2
  /\ calls[1].outcome = Raise("boom")
  /\ calls[1].text = "q2"
  /\ calls[2].outcome = Return("g1")
  /\ results = <<"Error processing subquery 'q2': boom", "g1">>

\* The slots of sub-queries i..n, one after the other with nothing between.
RECURSIVE SlotsFrom(_)
SlotsFrom(i) ==
  IF i > Len(intent.sub_queries) THEN "" ELSE SlotOf(i) \o SlotsFrom(i + 1)

\* C6: for n >= 1 sub-queries and no error, the returned string is the n
\* per-sub-query result strings, the i-th that of sub-query i, concatenated in
\* order with no separator.
C6_ConcatenatedInOrder ==
  (pc = "done" /\ Routed) =>
    /\ Len(results) = Len(intent.sub_queries)
    /\ output = Return(SlotsFrom(1))

\* Two sub-queries with different results were served and joined.
C6_Witness ==
  /\ pc = "done"
  /\ Routed
  /\ Len(intent.sub_queries) = 2
  /\ SlotOf(1) # SlotOf(2)
  /\ output = Return("Error generating answer: boom" \o "Unknown task: unknown-task")

\* C7: a sub-query whose task is in the routing table is served by exactly one
\* invocation, with the sub-query's text, of the agent the table gives for its
\* task; no other invocation is made for it (none for an unknown task, no
\* second one after a failure), and the invocations follow the list's order.
C7_RoutedOnce ==
  /\ \A j \in 1..Len(calls) :
       /\ calls[j].pos \in 1..Len(results)
       /\ \A k \in 1..Len(calls) : j < k => calls[j].pos < calls[k].pos
  /\ Routed =>
       \A i \in 1..Len(results) :
         IF intent.sub_queries[i].task \in RoutingKeys
         THEN /\ Cardinality(CallsAt(i)) = 1
              /\ \A j \in CallsAt(i) :
                   /\ calls[j].agent = RoutedAgent(intent.sub_queries[i].task)
                   /\ calls[j].text = intent.sub_queries[i].text
         ELSE CallsAt(i) = {}

\* A document-summarization sub-query went to the Case Discovery agent, which
\* raised, and the next sub-query went to the Legal Aid agent.
C7_Witness ==
  /\ pc = "done"
  /\ Routed
  /\ Len(intent.sub_queries) = 2
  /\ intent.sub_queries[1].task = "document summarization"
  /\ intent.sub_queries[2].task = "query resolution"
  /\ Len(calls) = 2
  /\ calls[1].agent = CaseDiscovery /\ calls[1].outcome.kind = "raise"
  /\ calls[2].agent = LegalAid

\* The regular files of the corpus directory.
Documents == corpus \cap Files

\* C8: in every reachable state of a retrieval agent the metadata list and the
\* index's vectors have the same length, and metadata entry i describes the
\* document whose embedding is vector i.
C8_MetadataAligned ==
  \A a \in RetrievalAgents :
    /\ Len(doc_metadata[a]) = Len(index[a])
    /\ \A i \in 1..Len(doc_metadata[a]) :
         /\ i <= Len(index[a])
         /\ index[a][i] = Embed(doc_metadata[a][i].text)

\* C9: an agent constructed with no persisted index, after k builds over an
\* unchanged corpus of N readable documents, holds k*N metadata entries and
\* k*N vectors (2*N after two builds).
C9_BuildsAccumulate ==
  \A a \in RetrievalAgents :
    (loaded[a] = 0 /\ builds[a].clean) =>
      /\ Len(doc_metadata[a]) = builds[a].n * Cardinality(Documents)
      /\ Len(index[a]) = builds[a].n * Cardinality(Documents)

\* An agent built twice over a two-document corpus holds four of each.
C9_Witness ==
  \E a \in RetrievalAgents :
    /\ loaded[a] = 0
    /\ builds[a].clean
    /\ builds[a].n = 2
    /\ Cardinality(Documents) = 2
    /\ Len(doc_metadata[a]) = 4
    /\ Len(index[a]) = 4

\* C10: after one build over N distinct readable documents with no persisted
\* index beforehand, search(query, topK) with topK <= N returns exactly topK
\* results, each naming a document of the corpus with that document's own
\* text and the negated distance of that document to the query as its score,
\* in order of non-decreasing distance (non-increasing score).
C10_SearchAfterBuild ==
  \A a \in RetrievalAgents :
    (/\ lastSearch.agent = a
     /\ loaded[a] = 0
     /\ builds[a].n = 1
     /\ builds[a].clean
     /\ lastSearch.top_k <= Cardinality(Documents)) =>
      LET docs == lastSearch.docs
      IN /\ Len(docs) = lastSearch.top_k
         /\ \A i \in 1..Len(docs) :
              /\ docs[i].file_name \in Documents
              /\ docs[i].text = FileText(docs[i].file_name)
              /\ docs[i].score =
                   0 - Distance(Embed(FileText(docs[i].file_name)), Embed(lastSearch.query))
         /\ \A i \in 1..(Len(docs) - 1) : docs[i].score >= docs[i + 1].score

\* A top-1 search over a freshly built two-document index whose nearest
\* document is the one stored second.
C10_Witness ==
  \E a \in RetrievalAgents :
    /\ lastSearch.agent = a
    /\ loaded[a] = 0
    /\ builds[a].n = 1
    /\ builds[a].clean
    /\ Cardinality(Documents) = 2
    /\ lastSearch.top_k = 1
    /\ Len(lastSearch.docs) = 1
    /\ lastSearch.docs[1].file_name = doc_metadata[a][2].file_name


\* C11: whenever a retrieval agent handles a query while the corpus directory
\* is empty or missing, and its build and search went through, the search
\* returned no document and the prompt submitted is the fallback template
\* followed by the query -- whether or not an index was loaded at construction.
C11_EmptyCorpusFallback ==
  \A j \in 1..Len(calls) :
    (calls[j].agent \in RetrievalAgents /\ corpus = {} /\ calls[j].search # <<>>)
      => /\ calls[j].search[1] = <<>>
         /\ calls[j].prompt = <<PromptOf(calls[j].agent, <<>>, calls[j].text)>>


\* C12: a search call leaves the index, the metadata list and the persisted
\* file as they were, and a search call repeated with the same query and the
\* same k, no build in between, returns the same documents in the same order.
C12_SearchReadsOnly ==
  /\ [](lastSearch.before # <<>> => lastSearch.docs = lastSearch.before[1])
  /\ [][(lastSearch' # lastSearch /\ lastSearch'.agent # None)
          => UNCHANGED <<index, doc_metadata, index_exist, fileExists, fileVecs>>]_vars

\* A search over a built store answered with two documents, then repeated.
C12_Witness ==
  /\ lastSearch.agent # None
  /\ lastSearch.before # <<>>
  /\ builds[lastSearch.agent].n > 0
  /\ Len(lastSearch.docs) = 2
  /\ lastSearch.docs[1].file_name # lastSearch.docs[2].file_name


\* C13: LegalDraftingAgent.__call__ submits exactly one prompt. With no
\* clause type the prompt holds "Instructions:", the instructions and the
\* context; with a clause type it names the clause type and holds the
\* instructions. When the pipeline returns a text, that text is the result.
C13_DraftingModes ==
  generation.agent = LegalDrafting
    => /\ Len(generation.prompt) = 1
       /\ IF generation.clause_type = None
          THEN /\ Contains(generation.prompt[1], "Instructions:")
               /\ Contains(generation.prompt[1], generation.text)
               /\ Contains(generation.prompt[1], generation.context)
          ELSE /\ Contains(generation.prompt[1], generation.clause_type)
               /\ Contains(generation.prompt[1], generation.text)
       /\ (generation.pipe[1].kind = "return" => generation.outcome = generation.pipe[1])

\* A clause drafted: the clause type named, the pipeline's text returned.
C13_Witness ==
  /\ generation.agent = LegalDrafting
  /\ generation.clause_type = "indemnity"
  /\ generation.context = "c1"
  /\ generation.outcome = Return("g1")


\* C14: in one process the loader constructs at most one pipeline handle, and
\* none before an Assistant is constructed without a pipe of its own; every
\* Assistant constructed without a pipe of its own holds that one handle, also
\* after a construction that failed; and the three agents of an Assistant hold
\* the handle the Assistant holds.
C14_OneSharedHandle ==
  /\ pipeLoads <= 1
  /\ Len(pipeCache) = pipeLoads
  /\ (\A i \in 1..Len(constructions) : constructions[i].arg # <<>>) => pipeLoads = 0
  /\ \A i \in 1..Len(constructions) :
       LET c == constructions[i]
       IN /\ (c.arg = <<>> /\ c.result # "load failed") => c.pipe = <<LoadedPipe(1)>>
          /\ c.arg # <<>> => c.pipe = c.arg
          /\ c.result = "ok" => /\ c.case_discovery_agent = c.pipe
                                /\ c.legal_aid_agent = c.pipe
                                /\ c.legal_drafting_agent = c.pipe

\* The first Assistant() failed while the pipeline loaded; two later ones
\* succeeded.
C14_Witness ==
  /\ Len(constructions) >= 3
  /\ constructions[1].result = "load failed"
  /\ constructions[2].arg = <<>> /\ constructions[2].result = "ok"
  /\ constructions[3].arg = <<>> /\ constructions[3].result = "ok"


\* C15: when the pipeline raises inside a retrieval agent's call, the call
\* returns (an inline error string) rather than raises.
C15_GenerationErrorCaught ==
  \A j \in 1..Len(calls) :
    (calls[j].agent \in RetrievalAgents /\ calls[j].pipe # <<>>
       /\ calls[j].pipe[1].kind = "raise")
      => calls[j].outcome.kind = "return"


\* C16: when the pipeline raises inside LegalDraftingAgent.__call__, in clause
\* mode or in document mode, the call returns a string that contains the
\* exception's message.
C16_DraftingErrorInline ==
  (generation.agent = LegalDrafting /\ generation.pipe[1].kind = "raise")
    => /\ generation.outcome.kind = "return"
       /\ generation.outcome.value \in STRING
       /\ Contains(generation.outcome.value, generation.pipe[1].value)

\* The pipeline raised while a clause was drafted.
C16_Witness ==
  /\ generation.agent = LegalDrafting
  /\ ClauseMode(generation.clause_type)
  /\ generation.pipe = <<Raise("boom")>>
  /\ generation.outcome = Return("Error generating clause: boom")


\* C17: a build_index call writes the index file if and only if that call
\* added at least one document.
C17_WritesIffAdded ==
  \A a \in RetrievalAgents :
    builds[a].n > 0 => (builds[a].last.wrote <=> builds[a].last.added > 0)


\* What a build step of agent a appended to the metadata list and to the index.
AppendedMeta(a) == SubSeq(doc_metadata[a]', Len(doc_metadata[a]) + 1, Len(doc_metadata[a]'))
AppendedVecs(a) == SubSeq(index[a]', Len(index[a]) + 1, Len(index[a]'))

\* C18: a build_index call in which some files raise ends normally; a file
\* that raised adds no vector and no metadata entry, every other regular file
\* of the corpus adds exactly one metadata entry and exactly one vector (its
\* embedding), and nothing stored before is lost.
C18_FailingFilesSkipped ==
  [][\A a \in RetrievalAgents :
       builds[a].n' = builds[a].n + 1
         => LET failed == builds[a].last.failed'
                good == Documents \ failed
                meta == AppendedMeta(a)
                vecs == AppendedVecs(a)
            IN /\ Len(meta) = Cardinality(good)
               /\ Len(vecs) = Cardinality(good)
               /\ \A f \in good :
                    Cardinality({i \in 1..Len(meta) : meta[i].file_name = f}) = 1
               /\ \A f \in failed : \A i \in 1..Len(meta) : meta[i].file_name # f
               /\ \A i \in 1..Len(meta) : vecs[i] = Embed(ReadDocument(meta[i].file_name))
               /\ SubSeq(doc_metadata[a]', 1, Len(doc_metadata[a])) = doc_metadata[a]
               /\ SubSeq(index[a]', 1, Len(index[a])) = index[a]]_vars

\* A build over two documents and a sub-directory in which reading A.txt
\* raised: B.txt alone was added.
C18_Witness ==
  \E a \in RetrievalAgents :
    /\ builds[a].n = 1
    /\ builds[a].last.files = {"A.txt", "B.txt"}
    /\ builds[a].last.failed = {"A.txt"}
    /\ builds[a].last.added = 1
    /\ Len(doc_metadata[a]) = 1
    /\ doc_metadata[a][1].file_name = "B.txt"


\* C19: the agent calls of one request are made in list order, and when the
\* agent for a sub-query is called the handling of every earlier sub-query has
\* ended: each has returned or raised and has its slot in the results.
C19_OneAfterAnother ==
  /\ \A j \in 1..Len(calls) :
       /\ calls[j].slots = calls[j].pos - 1
       /\ calls[j].outcome.kind \in {"return", "raise"}
       /\ calls[j].pos <= Len(results) + (IF pc = "done" /\ output.kind = "raise" THEN 1 ELSE 0)
  /\ \A j, k \in 1..Len(calls) : j < k => calls[j].pos < calls[k].pos
  /\ pc = "loop" => Len(results) = pos - 1

\* Two agents called in one request, the first of them raising.
C19_Witness ==
  /\ pc = "done"
  /\ Len(calls) = 2
  /\ calls[1].agent = CaseDiscovery
  /\ calls[1].outcome.kind = "raise"
  /\ calls[2].agent = LegalDrafting
  /\ calls[2].slots = 1


\* C20: the prompt a retrieval agent submits has at most 4096 characters and
\* is a prefix of the prompt it built: the first 4096 characters of a longer
\* prompt, the whole of any other.
C20_PromptTruncated ==
  generation.agent \in RetrievalAgents
    => /\ Len(generation.prompt) = 1
       /\ Len(generation.prompt[1]) <= PromptBudget
       /\ generation.prompt[1] = SubSeq(generation.full, 1, Len(generation.prompt[1]))
       /\ IF Len(generation.full) > PromptBudget
          THEN Len(generation.prompt[1]) = PromptBudget
          ELSE generation.prompt[1] = generation.full

\* A prompt built from two documents that is longer than the budget.
C20_Witness ==
  /\ generation.agent \in RetrievalAgents
  /\ Len(generation.docs) = 2
  /\ generation.docs[1].file_name # generation.docs[2].file_name
  /\ Len(generation.full) > PromptBudget
  /\ Len(generation.prompt[1]) = PromptBudget


\* C21: each build of a retrieval agent starts from nothing kept in memory
\* since an earlier request: after a build the metadata list holds the entries
\* of that build alone, and the index the vectors read from the file at
\* construction plus the vectors of that build alone.
C21_BuiltAnew ==
  \A a \in RetrievalAgents :
    builds[a].n > 0
      => /\ Len(doc_metadata[a]) = builds[a].last.added
         /\ Len(index[a]) = loaded[a] + builds[a].last.added

\* C23: a search returns at most min(top_k, stored vectors) documents; a slot
\* the index could not fill (position -1) yields no document.
C23_NoResultForMarker ==
  lastSearch.agent # None
    => Len(lastSearch.docs) <= Min(lastSearch.top_k, Len(index[lastSearch.agent]))


\* C22: the two retrieval agents write the same file, and a build that writes
\* replaces the file by the writing agent's own in-memory index; so a state is
\* reachable in which vectors one agent persisted are no longer in the file
\* after the other agent's build wrote it.
C22_WriteOverwrites ==
  [][\A a \in RetrievalAgents :
       (builds[a].n' = builds[a].n + 1 /\ builds[a].last.wrote')
         => /\ fileVecs' = index[a]'
            /\ Len(fileVecs) > Len(index[a]') => Len(fileVecs') < Len(fileVecs)]_vars

\* Case Discovery persisted two vectors, then Legal Aid's build (one file
\* failing) wrote its single vector: the file holds one.
C22_Witness ==
  /\ builds[CaseDiscovery].n = 1 /\ builds[CaseDiscovery].last.wrote
  /\ builds[LegalAid].n = 1 /\ builds[LegalAid].last.wrote
  /\ Len(index[CaseDiscovery]) = 2
  /\ fileVecs = index[LegalAid]
  /\ Len(fileVecs) = 1


\* The request in progress has a sub-query the routing table maps to agent a.
HasSubqueryFor(a) ==
  /\ "sub_queries" \in DOMAIN intent
  /\ \E i \in 1..Len(intent.sub_queries) :
       /\ intent.sub_queries[i].task \in DOMAIN task_alloc
       /\ task_alloc[intent.sub_queries[i].task] = a

\* C24: a step of a request changes the index or the metadata list of a
\* retrieval agent, or the index file at that agent's index_path, only if the
\* request has a sub-query routed to that agent.
C24_ChangedOnlyIfRouted ==
  [][\A a \in RetrievalAgents :
       (\/ index[a]' # index[a]
        \/ doc_metadata[a]' # doc_metadata[a]
        \/ fileExists' # fileExists
        \/ fileVecs' # fileVecs)
         => HasSubqueryFor(a)]_vars


\* C25: for a query shorter than the budget, whatever documents were
\* retrieved, the prompt a retrieval agent submits contains the whole query.
C25_QueryInPrompt ==
  (generation.agent \in RetrievalAgents /\ Len(generation.text) < PromptBudget)
    => Contains(generation.prompt[1], generation.text)

====
